---- MODULE Spec2Model ----
(***************************************************************************)
(* Model of src/src/predictor.cc: the engine (Predictor) that opens a      *)
(* compiled prediction image, resolves its entry points (Load), releases   *)
(* it (Free, and again in the destructor) and evaluates it over dense or   *)
(* CSR batches (PredictBatch -> PredictBatch_ -> PredLoop, an OpenMP        *)
(* statically scheduled loop).                                             *)
(*                                                                         *)
(* Indices are 0-based as in the source: arrays are functions on 0..n-1.   *)
(* A float is represented by its IEEE-754 binary32 bit pattern read as a   *)
(* signed 32-bit integer, because the scratch entries are accessed through *)
(* both of Entry's members (.fvalue and .missing): the initialiser {-1}    *)
(* at lines 58/93 sets one member, the loop stores .fvalue (78, 118) and   *)
(* the cleanup stores .missing = -1 (82, 123).  The cleanup could not undo *)
(* the store of .fvalue, and nothing would ever mark an entry as present,  *)
(* unless both members name the same storage, so an entry is modelled as   *)
(* one 32-bit slot.                                                        *)
(***************************************************************************)
EXTENDS Integers, Sequences, FiniteSets, TLC

\* ------------------------------------------------------------------ bounds
MaxRow == 2
MaxCol == 2
MaxCells == 4
MaxNnz == 2
MaxThread == 2
MaxGroup == 4
MaxOpen == 2
IndexBits == 3

\* ------------------------------------------------------------------ floats
\* binary32 patterns of the floats the batches are drawn from
FPosOne == 1065353216
FPosTwo == 1073741824
FNegOne == -1082130432
FQuietNaN == 2143289344
FAllOnesNaN == -1
FInfBits == 2139095040
IntMax == 2147483647

\* x with the sign bit cleared (x & 0x7fffffff)
AbsBits(x) == IF x >= 0 THEN x ELSE (x + IntMax) + 1

\* treelite::common::math::CheckNAN
CheckNAN(x) == AbsBits(x) > FInfBits

\* the float comparison a != b of line 117
FloatNe(a, b) ==
  \/ CheckNAN(a)
  \/ CheckNAN(b)
  \/ (a # b /\ ~(AbsBits(a) = 0 /\ AbsBits(b) = 0))

\* ------------------------------------------------------------------ Entry
\* Entry{-1}: the value every scratch slot is constructed with, and the value
\* the cleanup loops store through .missing
MissingMark == -1

\* inst[i].fvalue = v: the slot holds v's bit pattern
StoreFvalue(v) == v

\* inst[i].missing = -1
StoreMissing == MissingMark

\* ------------------------------------------------------------------ images
\* A binary image as OpenLibrary/LoadFunction see it, together with the
\* behaviour of the computation unit it holds: groups is what
\* get_num_output_group() returns; a multi-output unit writes the first
\* `width` slots of its output row and returns that count, or, when `varies`,
\* a count that depends on the row (1 + width times the number of present
\* entries, at most groups).
Image(n, o, q, g, p, m, w, v) ==
  [name |-> << n, g, w >>, opens |-> o, hasQuery |-> q, groups |-> g,
   hasPredict |-> p, hasMulti |-> m, width |-> w, varies |-> v]

ImgNoFile    == Image("nofile",    FALSE, FALSE, 0, FALSE, FALSE, 0, FALSE)
ImgNoQuery   == Image("noquery",   TRUE,  FALSE, 1, TRUE,  TRUE,  1, FALSE)
ImgZeroGroup == Image("zerogroup", TRUE,  TRUE,  0, TRUE,  TRUE,  0, FALSE)
ImgSingle    == Image("single",    TRUE,  TRUE,  1, TRUE,  FALSE, 1, FALSE)
ImgNoPredict == Image("nopredict", TRUE,  TRUE,  1, FALSE, TRUE,  1, FALSE)
ImgMulti     == Image("multi",     TRUE,  TRUE,  2, FALSE, TRUE,  2, FALSE)
ImgNoMulti   == Image("nomulti",   TRUE,  TRUE,  2, TRUE,  FALSE, 2, FALSE)

\* multi-output units of every constant width 0..groups, and units whose
\* width varies with the row
WidthImages ==
  { i \in { Image("width", TRUE, TRUE, g, FALSE, TRUE, w, FALSE) :
              g \in 2..MaxGroup, w \in 0..MaxGroup } : i.width <= i.groups }
ImgVaries == Image("varies", TRUE, TRUE, MaxGroup, FALSE, TRUE, 1, TRUE)
\* a unit whose count is 1 for a row without present entries and 3 for a row
\* with one
ImgUneven == Image("uneven", TRUE, TRUE, MaxGroup, FALSE, TRUE, 2, TRUE)
\* a two-group unit that writes one slot per row
ImgNarrow == Image("width", TRUE, TRUE, 2, FALSE, TRUE, 1, FALSE)

LifeImages ==
  { ImgNoFile, ImgNoQuery, ImgZeroGroup, ImgSingle, ImgNoPredict, ImgMulti,
    ImgNoMulti }
LoopImages == { ImgSingle, ImgMulti, ImgNarrow }
ReshapeImages == WidthImages \cup { ImgVaries, ImgUneven, ImgSingle }
AllImages == LifeImages \cup ReshapeImages
ImageOf(n) == CHOOSE i \in AllImages : i.name = n

NullLib == << "null", 0, 0 >>
NullFn == [img |-> NullLib, sym |-> "null"]

\* dlopen(name, RTLD_LAZY | RTLD_LOCAL): the handle, or nullptr
OpenLibrary(img) == IF img.opens THEN img.name ELSE NullLib

\* dlsym(lib_handle, name): the entry point, or nullptr
LoadFunction(img, sym) ==
  IF \/ sym = "get_num_output_group" /\ img.hasQuery
     \/ sym = "predict" /\ img.hasPredict
     \/ sym = "predict_multiclass" /\ img.hasMulti
  THEN [img |-> img.name, sym |-> sym]
  ELSE NullFn

\* ------------------------------------------------------------------ state
VARIABLES
  lib_handle_,          \* Predictor::lib_handle_
  query_func_handle_,   \* Predictor::query_func_handle_
  pred_func_handle_,    \* Predictor::pred_func_handle_
  num_output_group_,    \* Predictor::num_output_group_
  refs,                 \* per image: dlopen count minus dlclose count
  life,                 \* history: what Load/Free calls the engine has seen,
                        \* whether CloseLibrary got a handle that is not open,
                        \* whether the engine is destroyed or the process dead
  pc,                   \* position of the PredictBatch call
  batch,                \* the batch of the call
  shape,                \* the by-value arguments of PredictBatch_
  nthread,              \* team size after line 137
  inst,                 \* the scratch buffer of PredLoop
  out_pred,             \* the caller's output buffer
  wk,                   \* per worker: rid, end of its chunk, phase, private total
  rows,                 \* history per row: calls, entries seen, count and values
  query_result_size,    \* PredictBatch_'s local
  result                \* how the call ended and what it returned

engine == << lib_handle_, query_func_handle_, pred_func_handle_,
             num_output_group_, refs, life >>
callst == << pc, batch, shape, nthread, inst, out_pred, wk, rows,
             query_result_size, result >>
vars == << lib_handle_, query_func_handle_, pred_func_handle_,
           num_output_group_, refs, life, pc, batch, shape, nthread, inst,
           out_pred, wk, rows, query_result_size, result >>

NoBatch ==
  [kind |-> "none", num_row |-> 0, num_col |-> 0, missing_value |-> 0,
   data |-> << >>, row_ptr |-> << >>, col_ind |-> << >>]
NoShape == [num_output_group |-> 0, pred_func_handle |-> NullFn,
            pred_margin |-> FALSE, expected |-> 0]
NoResult == [kind |-> "none", ret |-> 0]

\* Predictor::Predictor(): the three handles are null; num_output_group_ is
\* not initialised, so it holds whatever the storage held.
Init ==
  /\ lib_handle_ = NullLib
  /\ query_func_handle_ = NullFn
  /\ pred_func_handle_ = NullFn
  /\ num_output_group_ \in 0..MaxGroup
  /\ refs = [n \in { i.name : i \in AllImages } |-> 0]
  /\ life = [ever_loaded |-> FALSE, freed |-> FALSE, load_failed |-> FALSE,
             bad_close |-> FALSE, over |-> "no"]
  /\ pc = "idle"
  /\ batch = NoBatch
  /\ shape = NoShape
  /\ nthread = 0
  /\ inst = << >>
  /\ out_pred = << >>
  /\ wk = << >>
  /\ rows = << >>
  /\ query_result_size = 0
  /\ result = NoResult

\* no PredictBatch call is in flight (the caller serialises Load/Free with it)
Quiescent == pc \in { "idle", "done" }

\* the locals of a finished PredictBatch call are gone
NoCall ==
  /\ pc' = "idle"
  /\ batch' = NoBatch
  /\ shape' = NoShape
  /\ nthread' = 0
  /\ inst' = << >>
  /\ out_pred' = << >>
  /\ wk' = << >>
  /\ rows' = << >>
  /\ query_result_size' = 0
  /\ result' = NoResult

\* the number of handles that are open
RECURSIVE OpenCount(_)
OpenCount(S) ==
  IF S = { } THEN 0
  ELSE LET n == CHOOSE x \in S : TRUE IN refs[n] + OpenCount(S \ { n })

\* ------------------------------------------------------------------ Load
\* SelectedSymbol with >= in place of > at line 221
SelectedSymbolGe(g) == IF g >= 1 THEN "predict_multiclass" ELSE "predict"

\* The symbol Load selects by the group count (lines 221-236)
SelectedSymbol(g) == IF g > 1 THEN "predict_multiclass" ELSE "predict"

\* Predictor::Load.  Each CHECK that fails leaves the members assigned so far
\* as they are and those not yet assigned untouched.
Load(img) ==
  /\ Quiescent
  /\ life.over = "no"
  /\ img.opens => OpenCount(DOMAIN refs) < MaxOpen
  /\ LET h == OpenLibrary(img)
         q == LoadFunction(img, "get_num_output_group")
         g == img.groups
         p == LoadFunction(img, SelectedSymbol(g))
         ok == h # NullLib /\ q # NullFn /\ g > 0 /\ p # NullFn
     IN
       /\ lib_handle_' = h
       /\ refs' = IF h # NullLib THEN [refs EXCEPT ![h] = @ + 1] ELSE refs
       /\ query_func_handle_' =
            IF h # NullLib THEN q ELSE query_func_handle_
       /\ num_output_group_' =
            IF h # NullLib /\ q # NullFn THEN g ELSE num_output_group_
       /\ pred_func_handle_' =
            IF h # NullLib /\ q # NullFn /\ g > 0 THEN p ELSE pred_func_handle_
       /\ life' = IF ok
                  THEN [life EXCEPT !.ever_loaded = TRUE, !.freed = FALSE,
                                    !.load_failed = FALSE]
                  ELSE [life EXCEPT !.load_failed = TRUE]
  /\ NoCall

\* ------------------------------------------------------------------ Free
\* CloseLibrary(handle): dlclose drops one reference of an open handle; on a
\* null handle or one that is no longer open it has nothing to close
CloseLibrary(h) ==
  IF h # NullLib /\ refs[h] > 0 THEN [refs EXCEPT ![h] = @ - 1] ELSE refs

\* the handle is one dlopen returned and dlclose has not yet released
IsOpen(h) == h # NullLib /\ refs[h] > 0

\* The body of Predictor::Free: CloseLibrary(lib_handle_); no member is
\* reassigned.  dlclose of a null handle or of a handle already released is
\* undefined: it returns without closing anything or the process dies.
\* `last` tells that the call is the destructor's.
Release(outcome, last) ==
  /\ Quiescent
  /\ life.over = "no"
  /\ outcome \in { "returns", "crash" }
  /\ outcome = "crash" => ~IsOpen(lib_handle_)
  /\ refs' = CloseLibrary(lib_handle_)
  /\ life' = [life EXCEPT !.freed = life.ever_loaded,
                          !.bad_close = @ \/ ~IsOpen(lib_handle_),
                          !.over = IF outcome = "crash" THEN "aborted"
                                   ELSE IF last THEN "destroyed" ELSE "no"]
  /\ UNCHANGED << lib_handle_, query_func_handle_, pred_func_handle_,
                  num_output_group_ >>
  /\ NoCall

\* Predictor::Free
Free == \E outcome \in { "returns", "crash" } : Release(outcome, FALSE)

\* Predictor::~Predictor: Free(), and the engine is gone
Destroy == \E outcome \in { "returns", "crash" } : Release(outcome, TRUE)

\* ------------------------------------------------------------------ batches
Min(a, b) == IF a < b THEN a ELSE b
Max(a, b) == IF a < b THEN b ELSE a

DenseVals == { FPosOne, FPosTwo, FQuietNaN }
Sentinels == { FPosTwo, FQuietNaN }
SparseVals == { FPosOne, FNegOne, FAllOnesNaN }

\* treelite::DenseBatch: num_row x num_col row-major floats and the sentinel
DenseBatchesOf(r, c) ==
  { [kind |-> "dense", num_row |-> r, num_col |-> c, missing_value |-> m,
     data |-> d, row_ptr |-> << >>, col_ind |-> << >>] :
      m \in Sentinels, d \in [0..(r * c - 1) -> DenseVals] }
\* the batch shapes the loop is checked on
Shapes ==
  { sh \in (1..MaxRow) \X (1..MaxCol) : sh[1] * sh[2] <= MaxCells }
DenseBatches == UNION { DenseBatchesOf(sh[1], sh[2]) : sh \in Shapes }

\* treelite::CSRBatch: row_ptr is non-decreasing from 0 to the number of
\* stored values, every column index is < num_col
RowPtrs(r, nnz) ==
  { f \in [0..r -> 0..nnz] :
      /\ f[0] = 0
      /\ f[r] = nnz
      /\ \A i \in 0..(r - 1) : f[i] <= f[i + 1] }
CSRBatchesOf(r, c, nnz) ==
  { [kind |-> "csr", num_row |-> r, num_col |-> c, missing_value |-> 0,
     data |-> d, row_ptr |-> rp, col_ind |-> ci] :
      d \in [0..(nnz - 1) -> SparseVals], rp \in RowPtrs(r, nnz),
      ci \in [0..(nnz - 1) -> 0..(c - 1)] }
CSRBatches ==
  UNION { CSRBatchesOf(sh[1], sh[2], nnz) : sh \in Shapes, nnz \in 0..MaxNnz }

\* Predictor::QueryResultSize(batch): the capacity of the output buffer
QueryResultSize(b) == b.num_row * Max(1, num_output_group_)

\* ------------------------------------------------------------------ unit
\* The computation unit is a pure function of the entries it is handed.
\* A slot reads as missing when its discriminator is -1.
Code(x) ==
  CASE x = MissingMark -> 0
    [] x = FPosOne -> 1
    [] x = FPosTwo -> 2
    [] x = FNegOne -> 3
    [] OTHER -> 4

RECURSIVE Feat(_, _, _)
Feat(sl, j, n) == IF j >= n THEN 0 ELSE Code(sl[j]) + 5 * Feat(sl, j + 1, n)

\* float predict(Entry* inst, int pred_margin)
UnitPredict(sl, n, margin) ==
  1 + Feat(sl, 0, n) + (IF margin THEN 1000 ELSE 0)

\* the value predict_multiclass stores in out_pred[j]
UnitOut(sl, n, margin, j) == 10 * UnitPredict(sl, n, margin) + j

\* the count predict_multiclass returns
UnitCount(img, sl, n) ==
  IF img.varies
  THEN Min(img.groups,
           1 + img.width * Cardinality({ j \in 0..(n - 1) : sl[j] # MissingMark }))
  ELSE img.width

\* ------------------------------------------------------------------ PredictBatch
\* CHECK(pred_func_handle != nullptr), line 134
LoadedCheckDropped(h) == TRUE
LoadedCheck(h) == h # NullFn

\* TeamSize without std::min: the request is taken as it is
TeamSizeNoClamp(req, max_thread) == IF req = 0 THEN max_thread ELSE req

\* nthread = (nthread == 0) ? max_thread : std::min(nthread, max_thread)
TeamSize(req, max_thread) ==
  IF req = 0 THEN max_thread ELSE Min(req, max_thread)

\* The row index is a signed integer of IndexBits bits (int64_t in the
\* source) and size_t is an unsigned integer of SizeBits bits; the build
\* modelled is the one where the two are equally wide, so that the CHECK of
\* lines 59-61 / 94-96 is not passed by its first disjunct.
SizeBits == IndexBits
SizeMax == 2 ^ SizeBits - 1

\* std::numeric_limits<int64_t>::max()
SignedMax == 2 ^ (IndexBits - 1) - 1

\* RangeCheck that passes every row count
RangeCheckDropped(num_row) == TRUE

\* CHECK(sizeof(size_t) < sizeof(int64_t)
\*       || batch->num_row <= static_cast<size_t>(int64_t max))
RangeCheck(num_row) == SizeBits < IndexBits \/ num_row <= SignedMax

\* static_cast<int64_t>(batch->num_row): the value modulo 2^IndexBits, read
\* as a signed integer
ToSigned(x) ==
  LET y == x % (2 ^ IndexBits) IN
  IF y > SignedMax THEN y - 2 ^ IndexBits ELSE y

\* the iterations of for (int64_t rid = 0; rid < num_row; ++rid)
TripCount(num_row) == IF num_row > 0 THEN num_row ELSE 0

\* schedule(static): thread t gets the contiguous rows cut[t] .. cut[t+1]-1
Cuts(n, num_row) ==
  { f \in [0..n -> 0..num_row] :
      /\ f[0] = 0
      /\ f[n] = num_row
      /\ \A t \in 0..(n - 1) : f[t] <= f[t + 1] }

\* std::vector<Entry> inst(nthread * batch->num_col, {-1})
NewScratch(n, num_col) == [i \in 0..(n * num_col - 1) |-> MissingMark]

\* Predictor::PredictBatch, PredictBatch_ up to the call of PredLoop, and
\* PredLoop up to the parallel loop.  When the CHECK of the row count fails,
\* the scratch buffer built at line 58 / 93 is destroyed with the frame.
PredictBatch(b, req, max_thread, pred_margin, cut) ==
  /\ pc = "idle"
  /\ batch' = b
  /\ shape' = [num_output_group |-> num_output_group_,
               pred_func_handle |-> pred_func_handle_,
               pred_margin |-> pred_margin,
               expected |-> QueryResultSize(b)]
  /\ out_pred' = [i \in 0..(QueryResultSize(b) - 1) |-> 0]
  /\ rows' = [r \in 0..(b.num_row - 1) |->
                [calls |-> 0, seen |-> << >>, count |-> 0, vals |-> << >>]]
  /\ query_result_size' = 0
  /\ IF ~LoadedCheck(pred_func_handle_)
     THEN /\ pc' = "done"
          /\ result' = [kind |-> "not_loaded", ret |-> 0]
          /\ nthread' = 0
          /\ inst' = << >>
          /\ wk' = << >>
     ELSE LET n == TeamSize(req, max_thread) IN
          /\ nthread' = n
          /\ IF ~RangeCheck(b.num_row)
             THEN /\ pc' = "done"
                  /\ result' = [kind |-> "error_range", ret |-> 0]
                  /\ inst' = << >>
                  /\ wk' = << >>
             ELSE /\ cut \in Cuts(n, TripCount(ToSigned(b.num_row)))
                  /\ pc' = "loop"
                  /\ result' = NoResult
                  /\ inst' = NewScratch(n, b.num_col)
                  /\ wk' = [t \in 0..(n - 1) |->
                              [lo |-> cut[t], rid |-> cut[t], hi |-> cut[t + 1],
                               phase |-> IF cut[t] < cut[t + 1]
                                         THEN "mat" ELSE "fin",
                               total |-> 0]]
  /\ UNCHANGED engine

\* ------------------------------------------------------------------ PredLoop
\* Off without the worker's id: every worker uses the first slice
OffShared(t) == 0

\* Off without the scaling by num_col: slices one entry apart
OffUnscaled(t) == t

\* const size_t off = num_col * tid
Off(t) == batch.num_col * t

\* DenseRow without the CHECK of line 114: a NaN is skipped silently
RECURSIVE DenseRowNoCheck(_, _, _, _)
DenseRowNoCheck(I, rid, off, j) ==
  IF j >= batch.num_col
  THEN [inst |-> I, ok |-> TRUE]
  ELSE LET x == batch.data[rid * batch.num_col + j]
           nan_missing == CheckNAN(batch.missing_value)
       IN IF CheckNAN(x)
          THEN DenseRowNoCheck(I, rid, off, j + 1)
          ELSE IF nan_missing \/ FloatNe(x, batch.missing_value)
               THEN DenseRowNoCheck([I EXCEPT ![off + j] = StoreFvalue(x)],
                                    rid, off, j + 1)
               ELSE DenseRowNoCheck(I, rid, off, j + 1)

\* DenseRow with the NaN test of line 113 lost when the sentinel is NaN: the
\* NaN is stored like any other value
RECURSIVE DenseRowStoresNaN(_, _, _, _)
DenseRowStoresNaN(I, rid, off, j) ==
  IF j >= batch.num_col
  THEN [inst |-> I, ok |-> TRUE]
  ELSE LET x == batch.data[rid * batch.num_col + j]
           nan_missing == CheckNAN(batch.missing_value)
       IN IF CheckNAN(x) /\ ~nan_missing
          THEN [inst |-> I, ok |-> FALSE]
          ELSE IF nan_missing \/ FloatNe(x, batch.missing_value)
               THEN DenseRowStoresNaN([I EXCEPT ![off + j] = StoreFvalue(x)],
                                      rid, off, j + 1)
               ELSE DenseRowStoresNaN(I, rid, off, j + 1)

\* lines 112-120: the dense row copied into the slice, column by column;
\* ok is FALSE when CHECK(nan_missing) fails
RECURSIVE DenseRow(_, _, _, _)
DenseRow(I, rid, off, j) ==
  IF j >= batch.num_col
  THEN [inst |-> I, ok |-> TRUE]
  ELSE LET x == batch.data[rid * batch.num_col + j]
           nan_missing == CheckNAN(batch.missing_value)
       IN IF CheckNAN(x)
          THEN IF nan_missing
               THEN DenseRow(I, rid, off, j + 1)
               ELSE [inst |-> I, ok |-> FALSE]
          ELSE IF nan_missing \/ FloatNe(x, batch.missing_value)
               THEN DenseRow([I EXCEPT ![off + j] = StoreFvalue(x)],
                             rid, off, j + 1)
               ELSE DenseRow(I, rid, off, j + 1)

\* SparseRow indexing the scratch without the worker's offset
RECURSIVE SparseRowNoOff(_, _, _, _)
SparseRowNoOff(I, off, i, iend) ==
  IF i >= iend
  THEN I
  ELSE SparseRowNoOff([I EXCEPT ![batch.col_ind[i]] = StoreFvalue(batch.data[i])],
                      off, i + 1, iend)

\* lines 77-79: inst[off + col_ind[i]].fvalue = data[i] for i in [i, iend)
RECURSIVE SparseRow(_, _, _, _)
SparseRow(I, off, i, iend) ==
  IF i >= iend
  THEN I
  ELSE SparseRow([I EXCEPT ![off + batch.col_ind[i]] = StoreFvalue(batch.data[i])],
                 off, i + 1, iend)

\* SparseReset that starts one entry late
RECURSIVE SparseResetSkipFirst(_, _, _, _)
SparseResetSkipFirst(I, off, i, iend) ==
  IF i + 1 >= iend
  THEN I
  ELSE SparseResetSkipFirst([I EXCEPT ![off + batch.col_ind[i + 1]] = StoreMissing],
                            off, i + 1, iend)

\* lines 81-83: inst[off + col_ind[i]].missing = -1 for i in [i, iend)
RECURSIVE SparseReset(_, _, _, _)
SparseReset(I, off, i, iend) ==
  IF i >= iend
  THEN I
  ELSE SparseReset([I EXCEPT ![off + batch.col_ind[i]] = StoreMissing],
                   off, i + 1, iend)

\* lines 122-124: inst[off + j].missing = -1 for every column
DenseReset(I, off) ==
  [i \in DOMAIN I |->
     IF off <= i /\ i < off + batch.num_col THEN StoreMissing ELSE I[i]]

\* the first loop of the body: the row is copied into the worker's slice
Materialize(t) ==
  /\ pc = "loop"
  /\ t \in DOMAIN wk
  /\ wk[t].phase = "mat"
  /\ LET rid == wk[t].rid
         m == IF batch.kind = "dense"
              THEN DenseRow(inst, rid, Off(t), 0)
              ELSE [inst |-> SparseRow(inst, Off(t), batch.row_ptr[rid],
                                       batch.row_ptr[rid + 1]),
                    ok |-> TRUE]
     IN /\ inst' = m.inst
        /\ IF m.ok
           THEN /\ wk' = [wk EXCEPT ![t].phase = "call"]
                /\ UNCHANGED << pc, result >>
           ELSE /\ pc' = "done"
                /\ result' = [kind |-> "error_nan", ret |-> 0]
                /\ UNCHANGED wk
  /\ UNCHANGED << batch, shape, nthread, out_pred, rows, query_result_size >>
  /\ UNCHANGED engine

\* &inst[off]: the num_col entries the unit is handed
Slice(t) == [j \in 0..(batch.num_col - 1) |-> inst[Off(t) + j]]

\* The call goes through a pointer that is null, that points into an image
\* which has been closed, or that is cast to the other calling shape: the
\* behaviour is undefined.  Invoke then either crashes or runs: the code of a
\* closed image may still be mapped, and a call in the wrong shape returns
\* whatever the return register holds (0 stands for that value).
Undefined ==
  LET h == shape.pred_func_handle IN
  \/ h = NullFn
  \/ refs[h.img] = 0
  \/ (shape.num_output_group > 1) # (h.sym = "predict_multiclass")

\* CallMulti handing the unit &out_pred[rid]: the row's slots start one
\* float, not num_output_group floats, after the previous row's
CallMultiUnstrided(O, rid, sl, cnt) ==
  [i \in DOMAIN O |->
     LET j == i - rid IN
     IF 0 <= j /\ j < cnt
     THEN UnitOut(sl, batch.num_col, shape.pred_margin, j)
     ELSE O[i]]

\* the lambda of lines 156-159: pred_func(inst, margin, &out_pred[rid * G])
CallMulti(O, rid, sl, cnt) ==
  [i \in DOMAIN O |->
     LET j == i - rid * shape.num_output_group IN
     IF 0 <= j /\ j < cnt
     THEN UnitOut(sl, batch.num_col, shape.pred_margin, j)
     ELSE O[i]]

\* the lambda of lines 165-169: out_pred[rid] = pred_func(inst, margin)
CallSingle(O, rid, v) == [O EXCEPT ![rid] = v]

\* total_output_size += func(rid, &inst[off], out_pred)
Invoke(t, outcome) ==
  /\ pc = "loop"
  /\ t \in DOMAIN wk
  /\ wk[t].phase = "call"
  /\ outcome \in { "runs", "crash" }
  /\ outcome = "crash" => Undefined
  /\ shape.pred_func_handle = NullFn => outcome = "crash"
  /\ LET rid == wk[t].rid
         sl == Slice(t)
         h == shape.pred_func_handle
         img == ImageOf(h.img)
         multi == shape.num_output_group > 1
         cnt == IF multi
                THEN (IF h.sym = "predict_multiclass"
                      THEN UnitCount(img, sl, batch.num_col) ELSE 0)
                ELSE 1
         v == IF h.sym = "predict"
              THEN UnitPredict(sl, batch.num_col, shape.pred_margin) ELSE 0
     IN IF outcome = "crash"
        THEN /\ pc' = "done"
             /\ result' = [kind |-> "crash", ret |-> 0]
             /\ UNCHANGED << wk, out_pred, rows >>
        ELSE /\ out_pred' = IF multi THEN CallMulti(out_pred, rid, sl, cnt)
                            ELSE CallSingle(out_pred, rid, v)
             /\ rows' = [rows EXCEPT ![rid] =
                           [calls |-> @.calls + 1, seen |-> sl, count |-> cnt,
                            vals |-> IF multi
                                     THEN [j \in 0..(cnt - 1) |->
                                             UnitOut(sl, batch.num_col,
                                                     shape.pred_margin, j)]
                                     ELSE [j \in { 0 } |-> v]]]
             /\ wk' = [wk EXCEPT ![t].phase = "reset",
                                 ![t].total = @ + cnt]
             /\ UNCHANGED << pc, result >>
  /\ UNCHANGED << batch, shape, nthread, inst, query_result_size >>
  /\ UNCHANGED engine

\* ++rid of line 72 / 108
NextRidSkip(rid) == rid + 2
NextRid(rid) == rid + 1

\* the second loop of the body and ++rid
Reset(t) ==
  /\ pc = "loop"
  /\ t \in DOMAIN wk
  /\ wk[t].phase = "reset"
  /\ LET rid == wk[t].rid IN
     /\ inst' = IF batch.kind = "dense"
                THEN DenseReset(inst, Off(t))
                ELSE SparseReset(inst, Off(t), batch.row_ptr[rid],
                                 batch.row_ptr[rid + 1])
     /\ wk' = [wk EXCEPT ![t].rid = NextRid(rid),
                         ![t].phase = IF NextRid(rid) < wk[t].hi
                                      THEN "mat" ELSE "fin"]
  /\ UNCHANGED << pc, batch, shape, nthread, out_pred, rows,
                  query_result_size, result >>
  /\ UNCHANGED engine

\* reduction(+:total_output_size)
RECURSIVE Reduce(_, _)
Reduce(w, n) == IF n = 0 THEN 0 ELSE w[n - 1].total + Reduce(w, n - 1)

\* the end of the parallel region: PredLoop returns total_output_size
Join ==
  /\ pc = "loop"
  /\ \A t \in DOMAIN wk : wk[t].phase = "fin"
  /\ query_result_size' = Reduce(wk, nthread)
  /\ pc' = "joined"
  /\ UNCHANGED << batch, shape, nthread, inst, out_pred, wk, rows, result >>
  /\ UNCHANGED engine

\* ------------------------------------------------------------------ reshape
\* ReshapeChecks without the CHECK_EQ of line 178
ReshapeChecksNoMultiple(G, total, num_row) ==
  /\ G > 1
  /\ total \div num_row > 0
  /\ total \div num_row < G

\* lines 177-181: the four checks before the compaction
ReshapeChecks(G, total, num_row) ==
  /\ G > 1
  /\ total % num_row = 0
  /\ total \div num_row > 0
  /\ total \div num_row < G

\* Compact taking the rows from the last to the first
RECURSIVE CompactBackward(_, _, _, _, _)
CompactBackward(O, G, q, rid, k) ==
  IF rid >= batch.num_row
  THEN O
  ELSE IF k >= q
       THEN CompactBackward(O, G, q, rid + 1, 0)
       ELSE LET r == batch.num_row - 1 - rid IN
            CompactBackward([O EXCEPT ![r * q + k] = O[r * G + k]],
                            G, q, rid, k + 1)

\* lines 182-187, in the order the loops run
RECURSIVE Compact(_, _, _, _, _)
Compact(O, G, q, rid, k) ==
  IF rid >= batch.num_row
  THEN O
  ELSE IF k >= q
       THEN Compact(O, G, q, rid + 1, 0)
       ELSE Compact([O EXCEPT ![rid * q + k] = O[rid * G + k]],
                    G, q, rid, k + 1)

\* PredictBatch_ from line 176 to its return
Return ==
  /\ pc = "joined"
  /\ pc' = "done"
  /\ LET G == shape.num_output_group
         expected == shape.expected
     IN IF query_result_size < expected
        THEN IF ReshapeChecks(G, query_result_size, batch.num_row)
             THEN /\ out_pred' = Compact(out_pred, G,
                                         query_result_size \div batch.num_row,
                                         0, 0)
                  /\ result' = [kind |-> "ok", ret |-> query_result_size]
             ELSE /\ out_pred' = out_pred
                  /\ result' = [kind |-> "error_reshape", ret |-> 0]
        ELSE /\ out_pred' = out_pred
             /\ result' = [kind |-> "ok", ret |-> query_result_size]
  /\ UNCHANGED << batch, shape, nthread, inst, wk, rows, query_result_size >>
  /\ UNCHANGED engine

\* the caller has taken the result of the call and may call again
Finish ==
  /\ pc = "done"
  /\ NoCall
  /\ UNCHANGED engine

\* ------------------------------------------------------------------ specifications
\* two-row, one-column batches of one value, for the life cycle
LifeBatches ==
  { b \in DenseBatchesOf(2, 1) \cup CSRBatchesOf(2, 1, 1) :
      \A i \in DOMAIN b.data : b.data[i] = FPosOne }

\* one-column batches of up to MaxRow + 1 rows, for the reshape
ReshapeBatches ==
  UNION { DenseBatchesOf(r, 1) \cup CSRBatchesOf(r, 1, 1) :
            r \in 1..(MaxRow + 1) }

Step ==
  \/ \E t \in 0..(MaxThread - 1) : Materialize(t)
  \/ \E t \in 0..(MaxThread - 1), o \in { "runs", "crash" } : Invoke(t, o)
  \/ \E t \in 0..(MaxThread - 1) : Reset(t)
  \/ Join
  \/ Return
  \/ Finish

\* a PredictBatch call with a batch, a thread request and a margin flag of
\* the given sets, under any ceiling and any static partition
Call(batches, reqs, margins) ==
  /\ pc = "idle"
  /\ life.over = "no"
  /\ \E b \in batches, req \in reqs, max_thread \in 1..MaxThread,
        m \in margins :
       \E cut \in Cuts(TeamSize(req, max_thread),
                       TripCount(ToSigned(b.num_row))) :
         PredictBatch(b, req, max_thread, m, cut)

\* the life cycle of one engine: any Load, Free and PredictBatch, and its
\* destruction
Next ==
  \/ \E img \in LifeImages : Load(img)
  \/ Free
  \/ Destroy
  \/ Call(LifeBatches, 0..(MaxThread + 1), { FALSE })
  \/ Step

Spec == Init /\ [][Next]_vars

\* an engine loaded once, and the parallel loop over every dense and sparse
\* batch
NextLoop ==
  \/ \E img \in LoopImages : ~life.ever_loaded /\ Load(img)
  \/ Call(DenseBatches \cup CSRBatches, 0..(MaxThread + 1), { FALSE })
  \/ Step

SpecLoop == Init /\ [][NextLoop]_vars

\* an engine loaded once with a unit of any width, and the reshape of the
\* output buffer after a loop run by one worker
NextReshape ==
  \/ \E img \in ReshapeImages : ~life.ever_loaded /\ Load(img)
  \/ Call(ReshapeBatches, { 1 }, BOOLEAN)
  \/ Step

SpecReshape == Init /\ [][NextReshape]_vars

\* one-column batches without NaN that declare any row count a size_t holds:
\* a dense batch of ones and a CSR batch without stored values
RangeBatches ==
  UNION { { [kind |-> "dense", num_row |-> r, num_col |-> 1,
             missing_value |-> FPosTwo, data |-> [i \in 0..(r - 1) |-> FPosOne],
             row_ptr |-> << >>, col_ind |-> << >>] } \cup CSRBatchesOf(r, 1, 0) :
            r \in 1..SizeMax }

\* an engine loaded once, and calls on batches of every declared row count
NextRange ==
  \/ \E img \in { ImgSingle, ImgMulti } : ~life.ever_loaded /\ Load(img)
  \/ Call(RangeBatches, { 0, 1 }, { FALSE })
  \/ Step

SpecRange == Init /\ [][NextRange]_vars

\* ------------------------------------------------------------------ claims
\* a PredictBatch call has been made and this is where it stands
CallMade == pc # "idle"
Rejected == pc = "done" /\ result.kind = "not_loaded"
AllHandlesNull ==
  /\ lib_handle_ = NullLib
  /\ query_func_handle_ = NullFn
  /\ pred_func_handle_ = NullFn

\* C1: after Free() on an engine that was loaded, and until the next Load
\* that succeeds, the image handle and both entry points are null and every
\* PredictBatch call is rejected as "not loaded" without calling the unit.
C1_FreeInvalidates ==
  life.freed => /\ AllHandlesNull
                /\ CallMade => Rejected

\* C2: after a Load that failed, whatever came before it, the engine is
\* unloaded: a PredictBatch call is rejected as "not loaded".
C2_FailedLoadUnloads ==
  life.load_failed => /\ ~LoadedCheck(pred_func_handle_)
                      /\ CallMade => Rejected

\* C3: on an engine on which no Load has succeeded, a PredictBatch call is
\* rejected as "not loaded", writes nothing to the output buffer and calls no
\* entry point.
C3_RejectBeforeLoad ==
  (~life.ever_loaded /\ CallMade) =>
    /\ Rejected
    /\ \A i \in DOMAIN out_pred : out_pred[i] = 0
    /\ \A r \in DOMAIN rows : rows[r].calls = 0
    /\ inst = << >>

C3_Witness ==
  /\ ~life.ever_loaded
  /\ life.load_failed
  /\ Rejected
  /\ batch.kind = "csr"
  /\ batch.num_row = 2

\* the rows the unit has been called for, and the columns of the batch
Invoked(r) == rows[r].calls > 0
Cols == 0..(batch.num_col - 1)

\* the stored values of CSR row r, and the columns they list
RowRange(r) == batch.row_ptr[r]..(batch.row_ptr[r + 1] - 1)
Listed(r) == { batch.col_ind[i] : i \in RowRange(r) }
LastListed(r, j) ==
  LET i == CHOOSE i \in RowRange(r) :
             /\ batch.col_ind[i] = j
             /\ \A k \in RowRange(r) : batch.col_ind[k] = j => k <= i
  IN batch.data[i]

Admitted == CallMade /\ result.kind # "not_loaded"

\* dense batches by their sentinel, in a call on a loaded engine
DenseFinite ==
  Admitted /\ batch.kind = "dense" /\ ~CheckNAN(batch.missing_value)
DenseNaN ==
  Admitted /\ batch.kind = "dense" /\ CheckNAN(batch.missing_value)
Cell(r, j) == batch.data[r * batch.num_col + j]
RowHasNaN(r) == \E j \in Cols : CheckNAN(Cell(r, j))

\* C5: dense batch, finite sentinel: a call on a batch with a NaN row does not
\* complete, it ends with the input-validation error; a row handed to the unit
\* has no NaN, its sentinel columns are missing and the others hold their value.
C5_FiniteSentinel ==
  DenseFinite =>
    /\ (\E r \in DOMAIN rows : RowHasNaN(r)) =>
         /\ pc # "joined"
         /\ pc = "done" => result.kind = "error_nan"
    /\ \A r \in DOMAIN rows : Invoked(r) =>
         /\ ~RowHasNaN(r)
         /\ \A j \in Cols :
              rows[r].seen[j] =
                IF Cell(r, j) = batch.missing_value
                THEN MissingMark ELSE Cell(r, j)

C5_Witness ==
  /\ DenseFinite
  /\ pc = "done"
  /\ result.kind = "error_nan"
  /\ \E r \in DOMAIN rows :
       /\ Invoked(r)
       /\ \E j, k \in Cols :
            /\ Cell(r, j) = batch.missing_value
            /\ rows[r].seen[j] = MissingMark
            /\ rows[r].seen[k] = FPosOne

\* C6: dense batch, NaN sentinel: no call ends with the input-validation
\* error, and in a row handed to the unit every NaN column is missing and
\* every other column holds its value.
C6_NaNSentinel ==
  DenseNaN =>
    /\ result.kind # "error_nan"
    /\ pc = "done" => result.kind = "ok"
    /\ \A r \in DOMAIN rows : Invoked(r) =>
         \A j \in Cols :
           rows[r].seen[j] =
             IF CheckNAN(Cell(r, j)) THEN MissingMark ELSE Cell(r, j)

C6_Witness ==
  /\ DenseNaN
  /\ pc = "done"
  /\ result.kind = "ok"
  /\ \E r \in DOMAIN rows :
       /\ Invoked(r)
       /\ \E j, k \in Cols :
            /\ CheckNAN(Cell(r, j))
            /\ rows[r].seen[j] = MissingMark
            /\ rows[r].seen[k] = FPosTwo

\* row r materialized alone, on a fresh slice
AloneEntries(r) ==
  LET fresh == NewScratch(1, batch.num_col)
      I == IF batch.kind = "dense"
           THEN DenseRow(fresh, r, 0, 0).inst
           ELSE SparseRow(fresh, 0, batch.row_ptr[r], batch.row_ptr[r + 1])
  IN [j \in Cols |-> I[j]]

\* C7: whenever a worker is about to materialize a row (or has finished its
\* chunk), every entry of its slice is marked missing; so the entries the unit
\* sees for a row are those of the row materialized alone.
C7_SliceClean ==
  /\ pc = "loop" =>
       \A t \in DOMAIN wk : wk[t].phase \in { "mat", "fin" } =>
         \A j \in Cols : inst[Off(t) + j] = MissingMark
  /\ \A r \in DOMAIN rows : Invoked(r) => rows[r].seen = AloneEntries(r)

C7_Witness ==
  /\ pc = "loop"
  /\ batch.kind = "csr"
  /\ \E t \in DOMAIN wk :
       /\ t > 0
       /\ wk[t].phase = "mat"
       /\ wk[t].rid > wk[t].lo
       /\ \E j \in Cols : rows[wk[t].rid - 1].seen[j] # MissingMark

RECURSIVE SumCounts(_)
SumCounts(n) == IF n = 0 THEN 0 ELSE rows[n - 1].count + SumCounts(n - 1)

\* C10: no row is handed to the unit twice; when the loop has ended and when
\* the call returns normally every row has been handed to it exactly once and
\* the total is the sum of the per-row counts; for a single-output unit the
\* total is num_row and out_pred[r] is the prediction of row r.
C10_OncePerRow ==
  /\ \A r \in DOMAIN rows : rows[r].calls <= 1
  /\ (pc = "joined" \/ (pc = "done" /\ result.kind = "ok")) =>
       /\ \A r \in DOMAIN rows : rows[r].calls = 1
       /\ \A t \in DOMAIN wk : wk[t].phase = "fin"
       /\ query_result_size = SumCounts(batch.num_row)
       /\ pc = "done" => result.ret = SumCounts(batch.num_row)
       /\ shape.num_output_group <= 1 =>
            /\ query_result_size = batch.num_row
            /\ \A r \in DOMAIN rows : out_pred[r] = rows[r].vals[0]

C10_Witness ==
  /\ pc = "done"
  /\ result = [kind |-> "ok", ret |-> 2]
  /\ shape.num_output_group = 1
  /\ nthread = 2
  /\ wk[0].hi = 2
  /\ out_pred[0] # out_pred[1]

\* C8: when every row produced the same count k with 0 < k < G, the call
\* returns num_row * k and out_pred[r * k + j] is the value the unit wrote for
\* row r in slot j.
C8_ReshapeCorrect ==
  LET G == shape.num_output_group IN
  (pc = "done" /\ G > 1) =>
    \A k \in 1..(G - 1) :
      (\A r \in DOMAIN rows : Invoked(r) /\ rows[r].count = k) =>
        /\ result = [kind |-> "ok", ret |-> batch.num_row * k]
        /\ \A r \in DOMAIN rows : \A j \in 0..(k - 1) :
             out_pred[r * k + j] = rows[r].vals[j]

C8_Witness ==
  /\ pc = "done"
  /\ shape.num_output_group = 4
  /\ batch.num_row = 3
  /\ result = [kind |-> "ok", ret |-> 6]
  /\ \A r \in DOMAIN rows : rows[r].count = 2
  /\ rows[0].vals[0] # rows[1].vals[0]
  /\ rows[1].vals[0] # rows[2].vals[0]

\* the three conditions of the claim
ReshapeAllowed ==
  LET G == shape.num_output_group
      w == query_result_size \div batch.num_row
  IN /\ G > 1
     /\ query_result_size % batch.num_row = 0
     /\ 0 < w
     /\ w < G

\* C9: when the loop's total is below num_row * num_output_group, the call
\* returns normally only if the group count exceeds 1, the total is a multiple
\* of num_row and the per-row width is strictly between 0 and the group count;
\* otherwise it ends in the fatal consistency error and out_pred is untouched.
C9_ReshapeGuarded ==
  [][(pc = "joined" /\ query_result_size < shape.expected) =>
       /\ pc' = "done"
       /\ result'.kind = "ok" => ReshapeAllowed
       /\ ~ReshapeAllowed =>
            /\ result'.kind = "error_reshape"
            /\ out_pred' = out_pred]_vars

C9_Witness ==
  /\ pc = "done"
  /\ result.kind = "error_reshape"
  /\ query_result_size % batch.num_row # 0
  /\ \E i \in DOMAIN out_pred : out_pred[i] # 0

\* ------------------------------------------------------------------ team of one
\* PredLoop run by a team of one worker: the rows in order on the single
\* slice at offset 0, each materialized, handed to the unit and reset
RECURSIVE SerialLoop(_, _, _, _)
SerialLoop(I, O, total, rid) ==
  IF rid >= batch.num_row
  THEN [ok |-> TRUE, out |-> O, total |-> total]
  ELSE LET m == IF batch.kind = "dense"
                THEN DenseRow(I, rid, 0, 0)
                ELSE [inst |-> SparseRow(I, 0, batch.row_ptr[rid],
                                         batch.row_ptr[rid + 1]),
                      ok |-> TRUE]
       IN IF ~m.ok
          THEN [ok |-> FALSE, out |-> O, total |-> total]
          ELSE LET sl == [j \in Cols |-> m.inst[j]]
                   img == ImageOf(shape.pred_func_handle.img)
                   multi == shape.num_output_group > 1
                   cnt == IF multi THEN UnitCount(img, sl, batch.num_col) ELSE 1
                   O2 == IF multi
                         THEN CallMulti(O, rid, sl, cnt)
                         ELSE CallSingle(O, rid,
                                         UnitPredict(sl, batch.num_col,
                                                     shape.pred_margin))
                   I2 == IF batch.kind = "dense"
                         THEN DenseReset(m.inst, 0)
                         ELSE SparseReset(m.inst, 0, batch.row_ptr[rid],
                                          batch.row_ptr[rid + 1])
               IN SerialLoop(I2, O2, total + cnt, NextRid(rid))

\* PredictBatch_ with a team of one worker on the batch, unit and margin flag
\* of the call: how it ends, what it returns and the output buffer it leaves
SerialRun ==
  LET G == shape.num_output_group
      l == SerialLoop(NewScratch(1, batch.num_col),
                      [i \in 0..(shape.expected - 1) |-> 0], 0, 0)
  IN IF ~l.ok
     THEN [kind |-> "error_nan", ret |-> 0, out |-> l.out]
     ELSE IF l.total < shape.expected
          THEN IF ReshapeChecks(G, l.total, batch.num_row)
               THEN [kind |-> "ok", ret |-> l.total,
                     out |-> Compact(l.out, G, l.total \div batch.num_row,
                                     0, 0)]
               ELSE [kind |-> "error_reshape", ret |-> 0, out |-> l.out]
          ELSE [kind |-> "ok", ret |-> l.total, out |-> l.out]

\* C11: a call on a loaded engine, whatever the team size, the static
\* partition and the interleaving of the workers, ends the way the call with
\* a team of one worker ends on the same unit, batch and margin flag; when it
\* returns, the output buffer and the returned count are those of that call.
C11_TeamIndependent ==
  (Admitted /\ pc = "done") =>
    /\ result.kind = SerialRun.kind
    /\ result.kind # "error_nan" =>
         /\ out_pred = SerialRun.out
         /\ result.ret = SerialRun.ret

C11_Witness ==
  /\ pc = "done"
  /\ result = [kind |-> "ok", ret |-> 2]
  /\ nthread = 2
  /\ wk[0].hi = 1
  /\ wk[1].hi = 2
  /\ shape.num_output_group = 2
  /\ batch.kind = "csr"
  /\ out_pred = SerialRun.out
  /\ out_pred[0] # out_pred[1]

\* ------------------------------------------------------------------ partitions
\* the slice [t * num_col, (t + 1) * num_col) of worker t
SliceRange(t) == (t * batch.num_col)..((t + 1) * batch.num_col - 1)

\* the scratch slots worker t addresses for row rid: inst[off + col_ind[i]]
\* in the two loops of the sparse body, inst[off + j] in those of the dense
\* body, and the num_col entries from &inst[off] that the unit is handed
Touched(t, rid) ==
  { Off(t) + j : j \in Cols } \cup
  (IF batch.kind = "csr"
   THEN { Off(t) + batch.col_ind[i] : i \in RowRange(rid) }
   ELSE { })

\* the rows of worker t's chunk
Chunk(t) == wk[t].lo..(wk[t].hi - 1)

ScratchPartitioned ==
  pc = "loop" =>
    /\ DOMAIN inst = 0..(nthread * batch.num_col - 1)
    /\ \A t \in DOMAIN wk : \A rid \in Chunk(t) :
         /\ Touched(t, rid) \subseteq SliceRange(t)
         /\ Touched(t, rid) \subseteq DOMAIN inst
         /\ \A u \in DOMAIN wk \ { t } : \A r \in Chunk(u) :
              Touched(t, rid) \cap Touched(u, r) = { }

ScratchStep ==
  \A t \in 0..(MaxThread - 1) :
    /\ (Materialize(t) \/ Reset(t)) =>
         \A i \in DOMAIN inst : inst'[i] # inst[i] => i \in SliceRange(t)
    /\ (\E o \in { "runs", "crash" } : Invoke(t, o)) =>
         /\ inst' = inst
         /\ pc' = "loop" =>
              \A j \in Cols : rows'[wk[t].rid].seen[j] = inst[t * batch.num_col + j]

\* C12: during a call the scratch buffer has nthread * num_col entries; every
\* slot a worker addresses for a row of its chunk lies in its own slice, so no
\* slot is addressed by two workers; a worker's materialization and reset
\* change no slot outside its slice, and the unit reads exactly its slice.
C12_ScratchExclusive == []ScratchPartitioned /\ [][ScratchStep]_vars

C12_Witness ==
  /\ pc = "loop"
  /\ nthread = 2
  /\ batch.kind = "csr"
  /\ batch.num_col = 2
  /\ \A t \in DOMAIN wk :
       /\ wk[t].phase = "call"
       /\ \E i \in SliceRange(t) : inst[i] # MissingMark

\* the output indices of row r: [r * G, (r + 1) * G) for a multi-output unit,
\* r for a single-output unit
OutRange(r) ==
  IF shape.num_output_group > 1
  THEN (r * shape.num_output_group)..((r + 1) * shape.num_output_group - 1)
  ELSE { r }

OutputPartitioned ==
  pc = "loop" =>
    /\ \A t, u \in DOMAIN wk : t # u => Chunk(t) \cap Chunk(u) = { }
    /\ \A r, q \in DOMAIN rows :
         /\ OutRange(r) \subseteq DOMAIN out_pred
         /\ r # q => OutRange(r) \cap OutRange(q) = { }

OutputStep ==
  pc = "loop" =>
    /\ out_pred' # out_pred => \E t \in DOMAIN wk : Invoke(t, "runs")
    /\ \A t \in DOMAIN wk : Invoke(t, "runs") =>
         LET r == wk[t].rid IN
         /\ r \in Chunk(t)
         /\ \A i \in DOMAIN out_pred :
              out_pred'[i] # out_pred[i] => i \in OutRange(r)
         /\ \A j \in DOMAIN rows'[r].vals :
              /\ IF shape.num_output_group > 1
                 THEN r * shape.num_output_group + j \in OutRange(r)
                 ELSE r + j \in OutRange(r)
              /\ out_pred'[IF shape.num_output_group > 1
                           THEN r * shape.num_output_group + j
                           ELSE r + j] = rows'[r].vals[j]

\* C13: during the loop the chunks of the workers are disjoint and so are the
\* output ranges of the rows; the output buffer changes only when a worker
\* calls the unit for a row of its chunk, and then only inside that row's
\* range, which receives the values the unit produced: no output index is
\* written by two workers.
C13_OutputByRow == []OutputPartitioned /\ [][OutputStep]_vars

C13_Witness ==
  /\ pc = "loop"
  /\ nthread = 2
  /\ shape.num_output_group = 2
  /\ wk[0].hi = 1
  /\ wk[1].hi = 2
  /\ \A r \in DOMAIN rows : rows[r].calls = 1 /\ rows[r].count = 2
  /\ \A i \in 0..3 : out_pred[i] # 0

\* ------------------------------------------------------------------ failures
\* the call ended in one of the failures PredictBatch reports
Failed ==
  /\ pc = "done"
  /\ result.kind \in { "not_loaded", "error_range", "error_nan" }

\* C14: when a PredictBatch call fails (engine not loaded, row count out of
\* range, NaN in a dense batch with a finite sentinel), no row has been handed
\* to the unit and no slot of the output buffer has been written.
C14_FailuresBeforeLoop ==
  Failed =>
    /\ \A r \in DOMAIN rows : rows[r].calls = 0
    /\ \A i \in DOMAIN out_pred : out_pred[i] = 0

\* ------------------------------------------------------------------ binding
\* the conditions of the claim on an image
Loadable(img) ==
  /\ img.opens
  /\ img.hasQuery
  /\ img.groups >= 1
  /\ IF img.groups > 1 THEN img.hasMulti ELSE img.hasPredict

LoadStep ==
  \A img \in LifeImages :
   (pc' = "idle" /\ lib_handle_' = OpenLibrary(img) /\ Load(img)) =>
    /\ ~life'.load_failed <=> Loadable(img)
    /\ Loadable(img) =>
         /\ life'.ever_loaded
         /\ lib_handle_' = img.name
         /\ refs'[img.name] > 0
         /\ num_output_group_' = img.groups
         /\ pred_func_handle_' =
              [img |-> img.name,
               sym |-> IF img.groups > 1 THEN "predict_multiclass"
                       ELSE "predict"]

\* C15: a Load succeeds exactly when the image opens, get_num_output_group is
\* present and returns a count >= 1, and the symbol selected by the count
\* (predict_multiclass above 1, predict otherwise) is present; the engine then
\* holds the open handle, the count and the entry point of that symbol.
C15_LoadBinds == [][LoadStep]_vars

C15_Witness ==
  /\ life.ever_loaded
  /\ ~life.load_failed
  /\ lib_handle_ = ImgMulti.name
  /\ num_output_group_ = 2
  /\ pred_func_handle_ = [img |-> ImgMulti.name, sym |-> "predict_multiclass"]
  /\ refs[ImgNoMulti.name] > 0

\* ------------------------------------------------------------------ team
TeamStep ==
  (pc = "idle" /\ pc' = "loop") =>
    \A req \in 0..(MaxThread + 1), max_thread \in 1..MaxThread, m \in BOOLEAN :
      \A cut \in Cuts(TeamSize(req, max_thread),
                       TripCount(ToSigned(batch'.num_row))) :
        PredictBatch(batch', req, max_thread, m, cut) =>
          /\ nthread' = IF req = 0 THEN max_thread
                        ELSE IF req < max_thread THEN req ELSE max_thread
          /\ nthread' <= max_thread
          /\ DOMAIN inst' = 0..(nthread' * batch'.num_col - 1)
          /\ \A i \in DOMAIN inst' : inst'[i] = MissingMark
          /\ DOMAIN wk' = 0..(nthread' - 1)

\* C16: the team of a PredictBatch call has the ceiling's size when the
\* request is 0 and otherwise the lesser of the request and the ceiling; it
\* never exceeds the ceiling; the scratch buffer is allocated with exactly
\* team size * num_col entries, all of them missing.
C16_TeamClamped == [][TeamStep]_vars

C16_Witness ==
  /\ pc = "loop"
  /\ nthread = MaxThread
  /\ batch.num_col = 2
  /\ DOMAIN inst = 0..(MaxThread * 2 - 1)
  /\ \A i \in DOMAIN inst : inst[i] = MissingMark
  /\ \A t \in DOMAIN wk : wk[t].rid = wk[t].lo
  /\ \A r \in DOMAIN rows : rows[r].calls = 0

\* ------------------------------------------------------------------ row count
\* C17: at the width IndexBits, a call on a loaded engine with a batch whose
\* num_row is above the largest signed index ends with the row-count error
\* before any row is handed to the unit or any output slot written; any other
\* row count, the largest signed value minus one among them, is accepted, the
\* signed row count of the loop equals num_row (no wraparound), the chunks
\* end at num_row and the call returns num_row results or more.
C17_RowCountRange ==
  Admitted =>
    /\ batch.num_row > SignedMax =>
         /\ pc = "done"
         /\ result.kind = "error_range"
         /\ \A r \in DOMAIN rows : rows[r].calls = 0
         /\ \A i \in DOMAIN out_pred : out_pred[i] = 0
    /\ batch.num_row <= SignedMax =>
         /\ result.kind # "error_range"
         /\ ToSigned(batch.num_row) = batch.num_row
         /\ pc = "loop" =>
              /\ wk[nthread - 1].hi = batch.num_row
              /\ \A t \in DOMAIN wk : wk[t].rid \in 0..batch.num_row
         /\ pc = "done" =>
              /\ result.kind = "ok"
              /\ result.ret >= batch.num_row
              /\ \A r \in DOMAIN rows : rows[r].calls = 1

C17_Witness ==
  /\ batch.num_row = SignedMax - 1
  /\ pc = "done"
  /\ result.kind = "ok"
  /\ nthread = 2
  /\ \A r \in DOMAIN rows : rows[r].calls = 1

\* a call with a row count above the signed range has been rejected
C17_Rejected ==
  /\ batch.num_row = SignedMax + 1
  /\ pc = "done"
  /\ result.kind = "error_range"
  /\ nthread = 2

\* ------------------------------------------------------------------ calling shape
\* the calling shape PredictBatch_ selects, and the shape of the symbol the
\* stored entry point was resolved from
SelectedShape == IF shape.num_output_group > 1 THEN "multi" ELSE "single"
ResolvedShape ==
  CASE shape.pred_func_handle.sym = "predict_multiclass" -> "multi"
    [] shape.pred_func_handle.sym = "predict" -> "single"
    [] OTHER -> "none"

\* C18: whenever a PredictBatch call that passed the "not loaded" check is
\* about to invoke the stored entry point, the calling shape it selects by
\* num_output_group_ is the shape of the symbol the entry point was resolved
\* from.
C18_ShapeConsistent ==
  (pc = "loop" /\ \E t \in DOMAIN wk : wk[t].phase = "call") =>
    SelectedShape = ResolvedShape

\* ------------------------------------------------------------------ handles
\* C19: CloseLibrary is only ever called on a handle that is open (not on the
\* null handle of an engine never loaded, not a second time on one handle),
\* and once the engine is destroyed every image a Load opened is closed.
C19_OpensMatchCloses ==
  /\ ~life.bad_close
  /\ life.over = "destroyed" => \A n \in DOMAIN refs : refs[n] = 0

\* the three ways the handles get out of step
C19_NullClosed ==
  ~(life.bad_close /\ lib_handle_ = NullLib)
C19_ClosedTwice ==
  ~(life.bad_close /\ life.ever_loaded /\ ~life.load_failed)
C19_Leaked ==
  ~(life.over = "destroyed" /\ ~life.bad_close
      /\ \E n \in DOMAIN refs : refs[n] > 0)

\* ------------------------------------------------------------------ uneven counts
\* every row was handed to a multi-output unit that kept 0 < count <= G
CountsHonoured ==
  /\ shape.num_output_group > 1
  /\ \A r \in DOMAIN rows :
       /\ Invoked(r)
       /\ 0 < rows[r].count
       /\ rows[r].count <= shape.num_output_group

\* C20: for a multi-output unit whose counts satisfy 0 < count <= G on every
\* row, when the call returns normally with a total below num_row * G, every
\* row produced the same count k = total / num_row and out_pred[r * k + j] is
\* the value the unit wrote for row r in slot j.
C20_UnevenNotCompacted ==
  (/\ pc = "done"
   /\ result.kind = "ok"
   /\ CountsHonoured
   /\ result.ret < batch.num_row * shape.num_output_group) =>
    LET k == result.ret \div batch.num_row IN
    /\ \A r \in DOMAIN rows : rows[r].count = k
    /\ \A r \in DOMAIN rows : \A j \in 0..(k - 1) :
         out_pred[r * k + j] = rows[r].vals[j]

====
